---- MODULE Spec2Model ----
(***************************************************************************)
(* Model of the point-of-sale page of MrPuff (the POS component): the      *)
(* cart, the pricing functions, and the checkout sequence against the      *)
(* store.  Money is in whole minor units; the catalog prices and the       *)
(* percentages are chosen so that originalSubtotal * value / 100 is exact. *)
(***************************************************************************)
EXTENDS Integers, Sequences, FiniteSets, TLC

VARIABLES cart, toast, lastHandler, now, products, discounts, paymentMethod,
          cashReceived, showCashDialog, processing, pc, co, opsCommitting,
          sales, sale_items, stock, writes, showReceipt, receiptData, user,
          role, fetchPending, location, lookup, discountRows, discountForm,
          categoryRows, categoryManager, peer

vars == <<cart, toast, lastHandler, now, products, discounts, paymentMethod,
          cashReceived, showCashDialog, processing, pc, co, opsCommitting,
          sales, sale_items, stock, writes, showReceipt, receiptData, user,
          role, fetchPending, location, lookup, discountRows, discountForm,
          categoryRows, categoryManager, peer>>

catalog == <<products, discounts>>
session == <<user, role>>
(* the tables the checkout writes, and the writes it has issued *)
store == <<sales, sale_items, stock, writes>>
receipt == <<showReceipt, receiptData>>
run == <<processing, pc, co, opsCommitting>>
(* the point-of-sale page, the session and the tables of the sales *)
pos == <<cart, now, products, discounts, paymentMethod, cashReceived,
         showCashDialog, processing, pc, co, opsCommitting, sales, sale_items,
         stock, writes, showReceipt, receiptData, user, role, fetchPending>>
(* the pages other than the point of sale with their tables, and the point
   of sale of a second staff session *)
backoffice == <<location, lookup, discountRows, discountForm, categoryRows,
                categoryManager, peer>>

----------------------------------------------------------------------------
(* Bounds of the model *)
MaxCart == 2
MaxNow == 1
MaxRefillQty == 2
MaxSales == 1
MaxOpsCommitting == 1
MaxStock == 3
MaxDiscountRows == 3
MaxCategories == 3
MaxAttempts == 2

(* Program constants *)
RefillStock == 999
Percent == 100

----------------------------------------------------------------------------
(* Data *)
Null == [id |-> "null", type |-> "null", value |-> 0]

ProductId(n) == [kind |-> "product", n |-> n]
RefillId(t) == [kind |-> "refill", n |-> t]

ProductIds == {ProductId(1), ProductId(2)}

InitialStock == [i \in ProductIds |-> IF i.n = 1 THEN 2 ELSE 1]

Catalog == [i \in ProductIds |->
              IF i.n = 1
              THEN [id |-> i, selling_price |-> 150, buying_price |-> 100]
              ELSE [id |-> i, selling_price |-> 100, buying_price |-> 120]]

Product(i, s) == [id |-> i,
                  selling_price |-> Catalog[i].selling_price,
                  buying_price |-> Catalog[i].buying_price,
                  stock_quantity |-> s]

Discounts == {[id |-> "d10", type |-> "percentage", value |-> 10],
              [id |-> "dfix", type |-> "fixed", value |-> 200]}

RefillPrices == {50}

NoToast == "none"
NotEnoughStock == "Not enough stock available"
CartIsEmpty == "Cart is empty"
MustBeLoggedIn == "You must be logged in to process sales"

----------------------------------------------------------------------------
(* Sequence helpers (Array.prototype.filter / reduce) *)
RECURSIVE Filter(_, _)
Filter(s, keep) ==
  IF s = << >> THEN << >>
  ELSE IF Head(s) \in keep THEN <<Head(s)>> \o Filter(Tail(s), keep)
       ELSE Filter(Tail(s), keep)

RECURSIVE Sum(_)
Sum(s) == IF s = << >> THEN 0 ELSE Head(s) + Sum(Tail(s))

Max(a, b) == IF a >= b THEN a ELSE b

Range(s) == {s[i] : i \in 1..Len(s)}

(* fetchProducts: rows with stock_quantity > 0 *)
fetchProducts(st) == {Product(i, st[i]) : i \in {j \in ProductIds : st[j] > 0}}

isRefill(item) == item.product.id.kind = "refill"

----------------------------------------------------------------------------
(* Pricing *)
(* the fixed amount taken once per line *)
calculateItemDiscount_perLine(item) ==
  IF item.discount = Null THEN 0
  ELSE LET originalSubtotal == item.product.selling_price * item.quantity
       IN IF item.discount.type = "percentage"
          THEN (originalSubtotal * item.discount.value) \div Percent
          ELSE item.discount.value

calculateItemDiscount(item) ==
  IF item.discount = Null THEN 0
  ELSE LET originalSubtotal == item.product.selling_price * item.quantity
       IN IF item.discount.type = "percentage"
          THEN (originalSubtotal * item.discount.value) \div Percent
          ELSE item.discount.value * item.quantity

(* the floor at 0 left out *)
calculateItemSubtotal_noFloor(item) ==
  item.product.selling_price * item.quantity - calculateItemDiscount(item)

calculateItemSubtotal(item) ==
  LET originalSubtotal == item.product.selling_price * item.quantity
      discountAmount == calculateItemDiscount(item)
  IN Max(0, originalSubtotal - discountAmount)

ItemGross(item) == item.product.selling_price * item.quantity
ItemProfit(item) ==
  calculateItemSubtotal(item) - item.product.buying_price * item.quantity

(* the discount of each line counted up to the gross of the line *)
calculateTotals_capped(c) ==
  LET originalSubtotal == Sum([k \in 1..Len(c) |-> ItemGross(c[k])])
      totalDiscount ==
        Sum([k \in 1..Len(c) |->
               ItemGross(c[k]) - calculateItemSubtotal(c[k])])
  IN [originalSubtotal |-> originalSubtotal,
      totalDiscount |-> totalDiscount,
      subtotal |-> originalSubtotal - totalDiscount,
      totalProfit |-> Sum([k \in 1..Len(c) |-> ItemProfit(c[k])])]

(* the net total taken as the sum of the floored line subtotals *)
calculateTotals_netSum(c) ==
  [originalSubtotal |-> Sum([k \in 1..Len(c) |-> ItemGross(c[k])]),
   totalDiscount |-> Sum([k \in 1..Len(c) |-> calculateItemDiscount(c[k])]),
   subtotal |-> Sum([k \in 1..Len(c) |-> calculateItemSubtotal(c[k])]),
   totalProfit |-> Sum([k \in 1..Len(c) |-> ItemProfit(c[k])])]

calculateTotals(c) ==
  LET originalSubtotal == Sum([k \in 1..Len(c) |-> ItemGross(c[k])])
      totalDiscount == Sum([k \in 1..Len(c) |-> calculateItemDiscount(c[k])])
  IN [originalSubtotal |-> originalSubtotal,
      totalDiscount |-> totalDiscount,
      subtotal |-> originalSubtotal - totalDiscount,
      totalProfit |-> Sum([k \in 1..Len(c) |-> ItemProfit(c[k])])]

----------------------------------------------------------------------------
(* Cart operations *)

(* The cash and receipt dialogs are modal: the page behind is inert *)
Interactive == ~showCashDialog /\ ~showReceipt

(* t is the reading of Date.now() *)
addRefillToCart(price, t) ==
  LET refillProduct == [id |-> RefillId(t),
                        selling_price |-> price,
                        buying_price |-> 0,
                        stock_quantity |-> RefillStock]
  IN cart' = Append(cart, [product |-> refillProduct, quantity |-> 1,
                           discount |-> Null])

(* the stock comparison off by one: > for >= *)
addToCart_offByOne(product) ==
  LET existing == {i \in 1..Len(cart) : cart[i].product.id = product.id}
  IN IF existing # {}
     THEN IF \E i \in existing : cart[i].quantity > product.stock_quantity
          THEN /\ toast' = NotEnoughStock
               /\ cart' = cart
          ELSE /\ cart' = [i \in 1..Len(cart) |->
                            IF cart[i].product.id = product.id
                            THEN [cart[i] EXCEPT !.quantity = @ + 1]
                            ELSE cart[i]]
               /\ toast' = NoToast
     ELSE /\ cart' = Append(cart, [product |-> product, quantity |-> 1,
                                   discount |-> Null])
          /\ toast' = NoToast

addToCart(product) ==
  LET existing == {i \in 1..Len(cart) : cart[i].product.id = product.id}
  IN IF existing # {}
     THEN LET existingItem == cart[CHOOSE i \in existing :
                                     \A j \in existing : i <= j]
          IN IF existingItem.quantity >= product.stock_quantity
             THEN /\ toast' = NotEnoughStock
                  /\ cart' = cart
             ELSE /\ cart' = [i \in 1..Len(cart) |->
                               IF cart[i].product.id = product.id
                               THEN [cart[i] EXCEPT !.quantity = @ + 1]
                               ELSE cart[i]]
                  /\ toast' = NoToast
     ELSE /\ cart' = Append(cart, [product |-> product, quantity |-> 1,
                                   discount |-> Null])
          /\ toast' = NoToast

(* the stock ceiling left out *)
UpdatedItem_noCeiling(item, productId, delta) ==
  IF item.product.id = productId
  THEN LET newQuantity == item.quantity + delta
       IN IF newQuantity <= 0 THEN item
          ELSE [item EXCEPT !.quantity = newQuantity]
  ELSE item

UpdatedItem(item, productId, delta) ==
  IF item.product.id = productId
  THEN LET newQuantity == item.quantity + delta
       IN IF newQuantity <= 0 THEN item
          ELSE IF newQuantity > item.product.stock_quantity THEN item
          ELSE [item EXCEPT !.quantity = newQuantity]
  ELSE item

UpdateRejected(item, productId, delta) ==
  /\ item.product.id = productId
  /\ item.quantity + delta > 0
  /\ item.quantity + delta > item.product.stock_quantity

(* the rejection is not surfaced *)
updateQuantity_silent(productId, delta) ==
  LET mapped == [i \in 1..Len(cart) |-> UpdatedItem(cart[i], productId, delta)]
  IN /\ cart' = Filter(mapped, {m \in Range(mapped) : m.quantity > 0})
     /\ toast' = NoToast

updateQuantity(productId, delta) ==
  LET mapped == [i \in 1..Len(cart) |-> UpdatedItem(cart[i], productId, delta)]
  IN /\ cart' = Filter(mapped, {m \in Range(mapped) : m.quantity > 0})
     /\ toast' = IF \E i \in 1..Len(cart) :
                      UpdateRejected(cart[i], productId, delta)
                 THEN NotEnoughStock ELSE NoToast

removeFromCart(productId) ==
  /\ cart' = Filter(cart, {m \in Range(cart) : m.product.id # productId})
  /\ toast' = NoToast

(* a line that holds a discount keeps it *)
applyDiscount_keepsFirst(productId, discount) ==
  /\ cart' = [i \in 1..Len(cart) |->
               IF cart[i].product.id = productId /\ cart[i].discount = Null
               THEN [cart[i] EXCEPT !.discount = discount]
               ELSE cart[i]]
  /\ toast' = IF discount # Null THEN "Applied discount" ELSE NoToast

applyDiscount(productId, discount) ==
  /\ cart' = [i \in 1..Len(cart) |->
               IF cart[i].product.id = productId
               THEN [cart[i] EXCEPT !.discount = discount]
               ELSE cart[i]]
  /\ toast' = IF discount # Null THEN "Applied discount" ELSE NoToast

removeDiscount(productId) ==
  /\ cart' = [i \in 1..Len(cart) |->
               IF cart[i].product.id = productId
               THEN [cart[i] EXCEPT !.discount = Null]
               ELSE cart[i]]
  /\ toast' = NoToast

clearCart ==
  /\ cart' = << >>
  /\ cashReceived' = << >>
  /\ toast' = NoToast

----------------------------------------------------------------------------
(* Checkout *)
originalSubtotal == calculateTotals(cart).originalSubtotal
totalDiscount == calculateTotals(cart).totalDiscount
subtotal == calculateTotals(cart).subtotal
totalProfit == calculateTotals(cart).totalProfit

(* parseFloat(cashReceived) || 0 ; '' is the empty sequence *)
cashReceivedAmount == IF cashReceived = << >> THEN 0 ELSE cashReceived[1]
(* the difference taken the wrong way round *)
changeAmount_swapped == subtotal - cashReceivedAmount

changeAmount == cashReceivedAmount - subtotal
isValidCashPayment == paymentMethod = "card" \/ cashReceivedAmount >= subtotal

CoNone == [cart |-> << >>, originalSubtotal |-> 0, totalDiscount |-> 0,
           subtotal |-> 0, totalProfit |-> 0, paymentMethod |-> "cash",
           cashAmount |-> << >>, change |-> << >>, saleId |-> 0, idx |-> 0,
           stockBefore |-> [i \in ProductIds |-> 0]]

(* processCheckout up to its first await: the closure and the sales insert.
   stockBefore records the stored stock at the call, for the properties *)
processCheckout(cashAmount, change) ==
  /\ processing' = TRUE
  /\ pc' = "sale"
  /\ opsCommitting' = 0
  /\ co' = [cart |-> cart, originalSubtotal |-> originalSubtotal,
            totalDiscount |-> totalDiscount, subtotal |-> subtotal,
            totalProfit |-> totalProfit, paymentMethod |-> paymentMethod,
            cashAmount |-> cashAmount, change |-> change,
            saleId |-> 0, idx |-> 0, stockBefore |-> stock]

CompleteSaleEnabled == ~(Len(cart) = 0 \/ processing)

(* the role is not looked at *)
handleInitiateCheckout_noRoleCheck ==
  IF Len(cart) = 0
  THEN /\ toast' = CartIsEmpty
       /\ UNCHANGED <<cashReceived, showCashDialog, run>>
  ELSE IF user = "null"
  THEN /\ toast' = MustBeLoggedIn
       /\ UNCHANGED <<cashReceived, showCashDialog, run>>
  ELSE IF paymentMethod = "cash"
  THEN /\ cashReceived' = << >>
       /\ showCashDialog' = TRUE
       /\ toast' = NoToast
       /\ UNCHANGED run
  ELSE /\ processCheckout(<< >>, << >>)
       /\ toast' = NoToast
       /\ UNCHANGED <<cashReceived, showCashDialog>>

(* the payment method is not looked at: every sale goes straight to
   processCheckout *)
handleInitiateCheckout_noDialog ==
  IF Len(cart) = 0
  THEN /\ toast' = CartIsEmpty
       /\ UNCHANGED <<cashReceived, showCashDialog, run>>
  ELSE IF user = "null" \/ role = "null"
  THEN /\ toast' = MustBeLoggedIn
       /\ UNCHANGED <<cashReceived, showCashDialog, run>>
  ELSE /\ processCheckout(<< >>, << >>)
       /\ toast' = NoToast
       /\ UNCHANGED <<cashReceived, showCashDialog>>

handleInitiateCheckout ==
  IF Len(cart) = 0
  THEN /\ toast' = CartIsEmpty
       /\ UNCHANGED <<cashReceived, showCashDialog, run>>
  ELSE IF user = "null" \/ role = "null"
  THEN /\ toast' = MustBeLoggedIn
       /\ UNCHANGED <<cashReceived, showCashDialog, run>>
  ELSE IF paymentMethod = "cash"
  THEN /\ cashReceived' = << >>
       /\ showCashDialog' = TRUE
       /\ toast' = NoToast
       /\ UNCHANGED run
  ELSE /\ processCheckout(<< >>, << >>)
       /\ toast' = NoToast
       /\ UNCHANGED <<cashReceived, showCashDialog>>

ConfirmPaymentEnabled == ~(~isValidCashPayment \/ cashReceivedAmount = 0)

(* the tender is not compared with the net total *)
handleCashCheckout_noCheck ==
  /\ showCashDialog' = FALSE
  /\ processCheckout(<<cashReceivedAmount>>, <<changeAmount>>)
  /\ toast' = NoToast

handleCashCheckout ==
  IF cashReceivedAmount < subtotal
  THEN /\ toast' = "Insufficient cash received"
       /\ UNCHANGED <<showCashDialog, run>>
  ELSE /\ showCashDialog' = FALSE
       /\ processCheckout(<<cashReceivedAmount>>, <<changeAmount>>)
       /\ toast' = NoToast

saleRow(id) == [id |-> id, cashier_id |-> user,
                total_amount |-> co.subtotal,
                total_profit |-> co.totalProfit,
                discount_amount |-> co.totalDiscount,
                payment_method |-> co.paymentMethod]

(* the product id is stored for every line *)
saleItem_keepsId(item) ==
  LET originalItemSubtotal == item.product.selling_price * item.quantity
      discountAmount == calculateItemDiscount(item)
      finalSubtotal == calculateItemSubtotal(item)
      profit == finalSubtotal - (item.product.buying_price * item.quantity)
  IN [sale_id |-> co.saleId,
      product_id |-> <<item.product.id>>,
      quantity |-> item.quantity,
      unit_price |-> item.product.selling_price,
      buying_price |-> item.product.buying_price,
      subtotal |-> finalSubtotal,
      profit |-> profit,
      discount_id |-> item.discount.id,
      discount_amount |-> discountAmount,
      original_subtotal |-> originalItemSubtotal]

saleItem(item) ==
  LET originalItemSubtotal == item.product.selling_price * item.quantity
      discountAmount == calculateItemDiscount(item)
      finalSubtotal == calculateItemSubtotal(item)
      profit == finalSubtotal - (item.product.buying_price * item.quantity)
  IN [sale_id |-> co.saleId,
      product_id |-> IF isRefill(item) THEN << >> ELSE <<item.product.id>>,
      quantity |-> item.quantity,
      unit_price |-> item.product.selling_price,
      buying_price |-> item.product.buying_price,
      subtotal |-> finalSubtotal,
      profit |-> profit,
      discount_id |-> item.discount.id,
      discount_amount |-> discountAmount,
      original_subtotal |-> originalItemSubtotal]

(* a write the checkout issued and the store accepted: the table, the sale it
   belongs to, and for a stock write the cart line and the product id *)
Write(table, sale, line, id) ==
  [table |-> table, sale |-> sale, line |-> line, id |-> id]

(* next line of the captured cart after position i that is not a refill;
   0 when the stock loop is over *)
NextStockLine(i) ==
  LET rest == {j \in (i + 1)..Len(co.cart) : ~isRefill(co.cart[j])}
  IN IF rest = {} THEN 0 ELSE CHOOSE j \in rest : \A k \in rest : j <= k

(* the cart is not cleared *)
Finish_keepsCart ==
  /\ receiptData' = <<[saleId |-> co.saleId, items |-> co.cart,
                       subtotal |-> co.originalSubtotal,
                       totalDiscount |-> co.totalDiscount,
                       total |-> co.subtotal,
                       paymentMethod |-> co.paymentMethod,
                       cashReceived |-> co.cashAmount,
                       changeAmount |-> co.change]>>
  /\ toast' = "Sale completed successfully!"
  /\ showReceipt' = TRUE
  /\ cart' = cart
  /\ cashReceived' = << >>
  /\ fetchPending' = TRUE
  /\ processing' = FALSE
  /\ pc' = "none"
  /\ co' = CoNone

(* processCheckout after the stock loop: receipt, clear, refetch, finally *)
Finish ==
  /\ receiptData' = <<[saleId |-> co.saleId, items |-> co.cart,
                       subtotal |-> co.originalSubtotal,
                       totalDiscount |-> co.totalDiscount,
                       total |-> co.subtotal,
                       paymentMethod |-> co.paymentMethod,
                       cashReceived |-> co.cashAmount,
                       changeAmount |-> co.change]>>
  /\ toast' = "Sale completed successfully!"
  /\ showReceipt' = TRUE
  /\ cart' = << >>
  /\ cashReceived' = << >>
  /\ fetchPending' = TRUE
  /\ processing' = FALSE
  /\ pc' = "none"
  /\ co' = CoNone

(* the stock loop reaches line j (0: past the end) *)
StockLoop(j) ==
  IF j = 0 THEN Finish
  ELSE /\ pc' = "stock"
       /\ co' = [co EXCEPT !.idx = j]
       /\ UNCHANGED <<receiptData, toast, showReceipt, cart, cashReceived,
                      fetchPending, processing>>

SaleInsertOk ==
  /\ pc = "sale"
  /\ sales' = Append(sales, saleRow(Len(sales) + 1))
  /\ writes' = Append(writes, Write("sales", Len(sales) + 1, 0, << >>))
  /\ co' = [co EXCEPT !.saleId = Len(sales) + 1]
  /\ pc' = "items"
  /\ lastHandler' = "processCheckout"
  /\ UNCHANGED <<cart, toast, now, catalog, paymentMethod, cashReceived,
                 showCashDialog, processing, opsCommitting, sale_items, stock,
                 receipt, session, backoffice, fetchPending>>

ItemsInsertOk ==
  /\ pc = "items"
  /\ sale_items' = sale_items \o [k \in 1..Len(co.cart) |-> saleItem(co.cart[k])]
  /\ writes' = Append(writes, Write("sale_items", co.saleId, 0, << >>))
  /\ StockLoop(NextStockLine(0))
  /\ lastHandler' = "processCheckout"
  /\ UNCHANGED <<now, catalog, paymentMethod, showCashDialog, opsCommitting,
                 sales, stock, session, backoffice>>

(* the policy on products lets super_admin and manager update rows; the
   update of anyone else matches no row and returns no error *)
is_admin_or_manager(r) == r \in {"super_admin", "manager"}

(* the store refuses a stock write when the stored stock is below the
   quantity of the line *)
StockUpdateOk_checked ==
  /\ pc = "stock"
  /\ stock[co.cart[co.idx].product.id] >= co.cart[co.idx].quantity
  /\ LET item == co.cart[co.idx]
     IN /\ stock' = IF is_admin_or_manager(role)
                    THEN [stock EXCEPT ![item.product.id] =
                            item.product.stock_quantity - item.quantity]
                    ELSE stock
        /\ writes' = Append(writes, Write("products", co.saleId, co.idx,
                                          <<item.product.id>>))
  /\ StockLoop(NextStockLine(co.idx))
  /\ lastHandler' = "processCheckout"
  /\ UNCHANGED <<now, catalog, paymentMethod, showCashDialog, opsCommitting,
                 sales, sale_items, session, backoffice>>

StockUpdateOk ==
  /\ pc = "stock"
  /\ LET item == co.cart[co.idx]
     IN /\ stock' = IF is_admin_or_manager(role)
                    THEN [stock EXCEPT ![item.product.id] =
                            item.product.stock_quantity - item.quantity]
                    ELSE stock
        /\ writes' = Append(writes, Write("products", co.saleId, co.idx,
                                          <<item.product.id>>))
  /\ StockLoop(NextStockLine(co.idx))
  /\ lastHandler' = "processCheckout"
  /\ UNCHANGED <<now, catalog, paymentMethod, showCashDialog, opsCommitting,
                 sales, sale_items, session, backoffice>>

(* the finally block left out: processing stays set *)
CheckoutError_stuck ==
  /\ pc \in {"sale", "items", "stock"}
  /\ toast' = "Failed to process sale"
  /\ pc' = "none"
  /\ co' = CoNone
  /\ lastHandler' = "processCheckout"
  /\ UNCHANGED <<cart, now, catalog, paymentMethod, cashReceived,
                 showCashDialog, processing, opsCommitting, store, receipt,
                 session, backoffice, fetchPending>>

(* the sale header of the failed checkout is taken back *)
CheckoutError_rollback ==
  /\ pc \in {"sale", "items", "stock"}
  /\ toast' = "Failed to process sale"
  /\ processing' = FALSE
  /\ pc' = "none"
  /\ co' = CoNone
  /\ lastHandler' = "processCheckout"
  /\ sales' = IF pc = "sale" THEN sales ELSE SubSeq(sales, 1, Len(sales) - 1)
  /\ UNCHANGED <<cart, now, catalog, paymentMethod, cashReceived,
                 showCashDialog, opsCommitting, sale_items, stock, writes,
                 receipt, session, backoffice, fetchPending>>

(* any awaited write returns an error: catch, finally *)
CheckoutError ==
  /\ pc \in {"sale", "items", "stock"}
  /\ toast' = "Failed to process sale"
  /\ processing' = FALSE
  /\ pc' = "none"
  /\ co' = CoNone
  /\ lastHandler' = "processCheckout"
  /\ UNCHANGED <<cart, now, catalog, paymentMethod, cashReceived,
                 showCashDialog, opsCommitting, store, receipt, session, backoffice,
                 fetchPending>>

closeReceipt ==
  /\ showReceipt
  /\ showReceipt' = FALSE
  /\ receiptData' = << >>
  /\ lastHandler' = "closeReceipt"
  /\ UNCHANGED <<cart, toast, now, catalog, paymentMethod, cashReceived,
                 showCashDialog, run, store, session, backoffice, fetchPending>>

(* the receipt dialog is dismissed (onOpenChange) without the Close button *)
DismissReceipt ==
  /\ showReceipt
  /\ showReceipt' = FALSE
  /\ lastHandler' = "setShowReceipt"
  /\ UNCHANGED <<cart, toast, now, catalog, paymentMethod, cashReceived,
                 showCashDialog, run, store, receiptData, session, backoffice,
                 fetchPending>>

FetchProductsOk ==
  /\ fetchPending
  /\ products' = fetchProducts(stock)
  /\ fetchPending' = FALSE
  /\ lastHandler' = "fetchProducts"
  /\ UNCHANGED <<cart, toast, now, discounts, paymentMethod, cashReceived,
                 showCashDialog, run, store, receipt, session, backoffice>>

FetchProductsError ==
  /\ fetchPending
  /\ toast' = "Failed to load products"
  /\ fetchPending' = FALSE
  /\ lastHandler' = "fetchProducts"
  /\ UNCHANGED <<cart, now, catalog, paymentMethod, cashReceived,
                 showCashDialog, run, store, receipt, session, backoffice>>

(* fetchDiscounts, started on mount, resolves with the active discounts *)
FetchDiscountsOk ==
  /\ discounts = {}
  /\ discounts' = discountRows
  /\ lastHandler' = "fetchDiscounts"
  /\ UNCHANGED <<cart, toast, now, products, paymentMethod, cashReceived,
                 showCashDialog, run, store, receipt, session, backoffice, fetchPending>>

----------------------------------------------------------------------------
(* The point of sale of a second staff session, over the same tables: its
   product list, a cart of one line and a card checkout *)
PeerMounted ==
  [user |-> "u2", role |-> "cashier", products |-> {}, fetchPending |-> TRUE,
   cart |-> << >>, pc |-> "none", co |-> << >>, saleId |-> 0,
   showReceipt |-> FALSE]

PeerFrame ==
  UNCHANGED <<cart, toast, lastHandler, now, catalog, paymentMethod,
              cashReceived, showCashDialog, run, receipt, session,
              fetchPending, location, lookup, discountRows, discountForm,
              categoryRows, categoryManager>>

(* fetchProducts of the second session resolves *)
PeerFetchProductsOk ==
  /\ peer.fetchPending
  /\ peer' = [peer EXCEPT !.products = fetchProducts(stock),
                          !.fetchPending = FALSE]
  /\ UNCHANGED store
  /\ PeerFrame

(* addToCart in the second session: the first line, or one more unit of it *)
PeerAddItem ==
  /\ peer.pc = "none"
  /\ ~peer.showReceipt
  /\ Len(sales) < MaxAttempts
  /\ \E product \in peer.products :
       IF peer.cart = << >>
       THEN peer' = [peer EXCEPT !.cart = <<[product |-> product,
                                            quantity |-> 1,
                                            discount |-> Null]>>]
       ELSE /\ peer.cart[1].product.id = product.id
            /\ ~(peer.cart[1].quantity >= product.stock_quantity)
            /\ peer' = [peer EXCEPT !.cart[1].quantity = @ + 1]
  /\ UNCHANGED store
  /\ PeerFrame

(* Complete Sale with card in the second session: processCheckout up to its
   first await *)
PeerCheckout ==
  /\ peer.pc = "none"
  /\ ~peer.showReceipt
  /\ Len(peer.cart) # 0
  /\ Len(sales) < MaxAttempts
  /\ peer' = [peer EXCEPT !.pc = "sale", !.co = peer.cart]
  /\ UNCHANGED store
  /\ PeerFrame

PeerSaleInsertOk ==
  /\ peer.pc = "sale"
  /\ sales' = Append(sales,
                     [id |-> Len(sales) + 1, cashier_id |-> peer.user,
                      total_amount |-> calculateTotals(peer.co).subtotal,
                      total_profit |-> calculateTotals(peer.co).totalProfit,
                      discount_amount |-> calculateTotals(peer.co).totalDiscount,
                      payment_method |-> "card"])
  /\ writes' = Append(writes, Write("sales", Len(sales) + 1, 0, << >>))
  /\ peer' = [peer EXCEPT !.saleId = Len(sales) + 1, !.pc = "items"]
  /\ UNCHANGED <<sale_items, stock>>
  /\ PeerFrame

PeerItemsInsertOk ==
  /\ peer.pc = "items"
  /\ sale_items' = sale_items \o
                     [k \in 1..Len(peer.co) |->
                        [saleItem(peer.co[k]) EXCEPT !.sale_id = peer.saleId]]
  /\ writes' = Append(writes, Write("sale_items", peer.saleId, 0, << >>))
  /\ peer' = [peer EXCEPT !.pc = "stock"]
  /\ UNCHANGED <<sales, stock>>
  /\ PeerFrame

(* the stock write of the line, then the receipt, the clearing of the cart
   and the refetch *)
PeerStockUpdateOk ==
  /\ peer.pc = "stock"
  /\ LET item == peer.co[1]
     IN /\ stock' = IF is_admin_or_manager(peer.role)
                    THEN [stock EXCEPT ![item.product.id] =
                            item.product.stock_quantity - item.quantity]
                    ELSE stock
        /\ writes' = Append(writes, Write("products", peer.saleId, 1,
                                          <<item.product.id>>))
  /\ peer' = [peer EXCEPT !.pc = "none", !.co = << >>, !.cart = << >>,
                          !.showReceipt = TRUE, !.fetchPending = TRUE]
  /\ UNCHANGED <<sales, sale_items>>
  /\ PeerFrame

----------------------------------------------------------------------------
(* The Discounts page *)

(* texts are sequences of characters; a number input holds '' or a numeral *)
IsDigit(ch) == ch \in {"0", "1", "2", "3", "4", "5", "6", "7", "8", "9"}

DigitOf(ch) ==
  CASE ch = "0" -> 0 [] ch = "1" -> 1 [] ch = "2" -> 2 [] ch = "3" -> 3
    [] ch = "4" -> 4 [] ch = "5" -> 5 [] ch = "6" -> 6 [] ch = "7" -> 7
    [] ch = "8" -> 8 [] ch = "9" -> 9

RECURSIVE ParseDigits(_, _)
ParseDigits(text, acc) ==
  IF text = << >> \/ ~IsDigit(Head(text)) THEN acc
  ELSE ParseDigits(Tail(text), acc * 10 + DigitOf(Head(text)))

(* parseFloat on texts without a fraction: an optional sign and the longest
   run of digits; NaN is the empty sequence *)
parseFloat(text) ==
  LET negative == text # << >> /\ Head(text) = "-"
      body == IF negative THEN Tail(text) ELSE text
  IN IF body = << >> \/ ~IsDigit(Head(body)) THEN << >>
     ELSE <<(IF negative THEN -1 ELSE 1) * ParseDigits(body, 0)>>

isNaN(v) == v = << >>

CharOf(d) ==
  CASE d = 0 -> "0" [] d = 1 -> "1" [] d = 2 -> "2" [] d = 3 -> "3"
    [] d = 4 -> "4" [] d = 5 -> "5" [] d = 6 -> "6" [] d = 7 -> "7"
    [] d = 8 -> "8" [] d = 9 -> "9"

(* Number.prototype.toString of a non-negative integer *)
RECURSIVE toString(_)
toString(n) ==
  IF n < 10 THEN <<CharOf(n)>>
  ELSE Append(toString(n \div 10), CharOf(n % 10))

(* String.prototype.trim on the names of the model *)
trim(name) == IF name = " " THEN "" ELSE name

DiscountIdPool == {"n1", "n2", "n3"}

DiscountsMounted ==
  [discounts |-> {}, pending |-> TRUE, showDialog |-> FALSE,
   editingDiscount |-> << >>, name |-> "", type |-> "percentage",
   value |-> << >>]

canManage == role = "super_admin" \/ role = "manager"

resetForm(f) ==
  [f EXCEPT !.name = "", !.type = "percentage", !.value = << >>,
            !.editingDiscount = << >>]

(* CHECK (value > 0) of the discounts table *)
StoreAcceptsDiscount(row) == row.value > 0

(* the percentage limit is not applied *)
ExceedsPercentage_never(type, numValue) == FALSE

ExceedsPercentage(type, numValue) == type = "percentage" /\ numValue > 100

(* ok: the awaited insert or update meets no other error; the list is
   fetched again at the end *)
handleSave(ok) ==
  LET f == discountForm
      numValue == parseFloat(f.value)
      editing == f.editingDiscount # << >>
  IN IF trim(f.name) = ""
     THEN /\ toast' = "Please enter a discount name"
          /\ UNCHANGED <<discountRows, discountForm>>
     ELSE IF isNaN(numValue) \/ numValue[1] <= 0
     THEN /\ toast' = "Please enter a valid value greater than 0"
          /\ UNCHANGED <<discountRows, discountForm>>
     ELSE IF ExceedsPercentage(f.type, numValue[1])
     THEN /\ toast' = "Percentage cannot exceed 100%"
          /\ UNCHANGED <<discountRows, discountForm>>
     ELSE LET values == [type |-> f.type, value |-> numValue[1]]
          IN IF ok /\ StoreAcceptsDiscount(values)
             THEN /\ discountRows' =
                       IF editing
                       THEN {IF r.id = f.editingDiscount[1].id
                             THEN [r EXCEPT !.type = values.type,
                                            !.value = values.value]
                             ELSE r : r \in discountRows}
                       ELSE discountRows \cup
                              {[id |-> CHOOSE i \in DiscountIdPool :
                                         \A r \in discountRows : r.id # i,
                                type |-> values.type,
                                value |-> values.value]}
                  /\ toast' = IF editing THEN "Discount updated successfully"
                              ELSE "Discount created successfully"
                  /\ discountForm' = [resetForm(f) EXCEPT
                                        !.showDialog = FALSE,
                                        !.discounts = discountRows']
             ELSE /\ toast' = "Failed to save discount"
                  /\ UNCHANGED <<discountRows, discountForm>>

DiscountNames == {" ", "Sale"}
ValueTexts == {<<"0">>, <<"-", "5">>, <<"5", "0">>, <<"1", "5", "0">>}

DiscountsFrame ==
  UNCHANGED <<pos, location, lookup, categoryRows, categoryManager, peer>>

(* fetchDiscounts of the Discounts page resolves *)
DiscountsFetchOk ==
  /\ discountForm.pending
  /\ discountForm' = [discountForm EXCEPT !.discounts = discountRows,
                                          !.pending = FALSE]
  /\ lastHandler' = "fetchDiscounts"
  /\ UNCHANGED <<toast, discountRows>>
  /\ DiscountsFrame

openCreateDialog ==
  /\ canManage
  /\ ~discountForm.showDialog
  /\ discountForm' = [resetForm(discountForm) EXCEPT !.showDialog = TRUE]
  /\ lastHandler' = "openCreateDialog"
  /\ UNCHANGED <<toast, discountRows>>
  /\ DiscountsFrame

openEditDialog ==
  /\ canManage
  /\ ~discountForm.showDialog
  /\ \E discount \in discountForm.discounts :
       discountForm' = [discountForm EXCEPT
                          !.editingDiscount = <<discount>>,
                          !.name = "Sale",
                          !.type = discount.type,
                          !.value = toString(discount.value),
                          !.showDialog = TRUE]
  /\ lastHandler' = "openEditDialog"
  /\ UNCHANGED <<toast, discountRows>>
  /\ DiscountsFrame

(* a field of the dialog is changed *)
EditDiscountForm ==
  /\ discountForm.showDialog
  /\ \/ \E name \in DiscountNames :
          /\ name # discountForm.name
          /\ discountForm' = [discountForm EXCEPT !.name = name]
     \/ \E type \in {"percentage", "fixed"} :
          /\ type # discountForm.type
          /\ discountForm' = [discountForm EXCEPT !.type = type]
     \/ \E value \in ValueTexts :
          /\ value # discountForm.value
          /\ discountForm' = [discountForm EXCEPT !.value = value]
  /\ lastHandler' = "setValue"
  /\ UNCHANGED <<toast, discountRows>>
  /\ DiscountsFrame

CloseDiscountDialog ==
  /\ discountForm.showDialog
  /\ discountForm' = [discountForm EXCEPT !.showDialog = FALSE]
  /\ lastHandler' = "setShowDialog"
  /\ UNCHANGED <<toast, discountRows>>
  /\ DiscountsFrame

SaveDiscount ==
  /\ discountForm.showDialog
  /\ discountForm.editingDiscount = << >> =>
       Cardinality(discountRows) < MaxDiscountRows
  /\ \E ok \in BOOLEAN : handleSave(ok)
  /\ lastHandler' = "handleSave"
  /\ DiscountsFrame

----------------------------------------------------------------------------
(* The category manager of the Inventory page *)
CategoryIds == 1..(MaxCategories + 1)

CategoryManagerMounted ==
  [categories |-> {}, pending |-> TRUE, categoryDialogOpen |-> FALSE,
   editingCategory |-> << >>, name |-> "", parent_id |-> << >>]

mainCategories == {c \in categoryManager.categories : c.parent_id = << >>}

getSubCategories(parentId) ==
  {c \in categoryManager.categories : c.parent_id = <<parentId>>}

(* the categories the accordion shows: the main ones and their children *)
ListedCategories ==
  mainCategories
    \cup {c \in categoryManager.categories :
            \E m \in mainCategories : c.parent_id = <<m.id>>}

(* an id no row and no list of the session holds: gen_random_uuid() *)
FreshCategoryIds ==
  {i \in CategoryIds :
     /\ \A r \in categoryRows : r.id # i /\ r.parent_id # <<i>>
     /\ \A c \in categoryManager.categories : c.id # i /\ c.parent_id # <<i>>
     /\ categoryManager.editingCategory # << >> =>
          categoryManager.editingCategory[1].id # i
     /\ categoryManager.parent_id # <<i>>}

(* parent_id REFERENCES categories(id) *)
StoreAcceptsCategory(parent_id) ==
  parent_id = << >> \/ \E r \in categoryRows : r.id = parent_id[1]

(* DELETE of one category row: ON DELETE SET NULL for the rows under it *)
DeleteCategoryRow(rows, id) ==
  {IF r.parent_id = <<id>> THEN [r EXCEPT !.parent_id = << >>] ELSE r :
     r \in {q \in rows : q.id # id}}

CategoriesFrame ==
  UNCHANGED <<pos, location, lookup, discountRows, discountForm, peer>>

(* fetchData resolves *)
CategoriesFetchOk ==
  /\ categoryManager.pending
  /\ categoryManager' = [categoryManager EXCEPT !.categories = categoryRows,
                                                !.pending = FALSE]
  /\ lastHandler' = "fetchData"
  /\ UNCHANGED <<toast, categoryRows>>
  /\ CategoriesFrame

(* 'Add Category', or 'Add Sub-category' under a main category *)
openAddCategory ==
  /\ ~categoryManager.categoryDialogOpen
  /\ \E parentId \in {<< >>} \cup {<<m.id>> : m \in mainCategories} :
       categoryManager' = [categoryManager EXCEPT
                             !.editingCategory = << >>,
                             !.name = "",
                             !.parent_id = parentId,
                             !.categoryDialogOpen = TRUE]
  /\ lastHandler' = "openAddCategory"
  /\ UNCHANGED <<toast, categoryRows>>
  /\ CategoriesFrame

openEditCategory ==
  /\ ~categoryManager.categoryDialogOpen
  /\ \E category \in ListedCategories :
       categoryManager' = [categoryManager EXCEPT
                             !.editingCategory = <<category>>,
                             !.name = "A",
                             !.parent_id = category.parent_id,
                             !.categoryDialogOpen = TRUE]
  /\ lastHandler' = "openEditCategory"
  /\ UNCHANGED <<toast, categoryRows>>
  /\ CategoriesFrame

(* the options of the Parent Category select *)
ParentOptions ==
  {<< >>} \cup
  {<<c.id>> : c \in {m \in mainCategories :
                       categoryManager.editingCategory = << >>
                       \/ m.id # categoryManager.editingCategory[1].id}}

(* the name is typed, or a parent is picked in the select *)
EditCategoryForm ==
  /\ categoryManager.categoryDialogOpen
  /\ \/ /\ categoryManager.name = ""
        /\ categoryManager' = [categoryManager EXCEPT !.name = "A"]
     \/ \E value \in ParentOptions :
          /\ value # categoryManager.parent_id
          /\ categoryManager' = [categoryManager EXCEPT !.parent_id = value]
  /\ lastHandler' = "setCategoryForm"
  /\ UNCHANGED <<toast, categoryRows>>
  /\ CategoriesFrame

CloseCategoryDialog ==
  /\ categoryManager.categoryDialogOpen
  /\ categoryManager' = [categoryManager EXCEPT !.categoryDialogOpen = FALSE]
  /\ lastHandler' = "setCategoryDialogOpen"
  /\ UNCHANGED <<toast, categoryRows>>
  /\ CategoriesFrame

(* ok: the awaited insert or update meets no other error; fetchData loads
   the list again at the end *)
handleSaveCategory(ok) ==
  LET f == categoryManager
  IN IF trim(f.name) = ""
     THEN /\ toast' = "Category name is required"
          /\ UNCHANGED <<categoryRows, categoryManager>>
     ELSE IF ok /\ StoreAcceptsCategory(f.parent_id)
     THEN /\ categoryRows' =
               IF f.editingCategory # << >>
               THEN {IF r.id = f.editingCategory[1].id
                     THEN [r EXCEPT !.parent_id = f.parent_id]
                     ELSE r : r \in categoryRows}
               ELSE categoryRows \cup
                      {[id |-> CHOOSE i \in FreshCategoryIds : TRUE,
                        parent_id |-> f.parent_id]}
          /\ toast' = IF f.editingCategory # << >> THEN "Category updated"
                      ELSE "Category added"
          /\ categoryManager' = [f EXCEPT !.categoryDialogOpen = FALSE,
                                          !.categories = categoryRows']
     ELSE /\ toast' = "Failed to save category"
          /\ UNCHANGED <<categoryRows, categoryManager>>

SaveCategory ==
  /\ categoryManager.categoryDialogOpen
  /\ categoryManager.editingCategory = << >> =>
       Cardinality(categoryRows) < MaxCategories /\ FreshCategoryIds # {}
  /\ \E ok \in BOOLEAN : handleSaveCategory(ok)
  /\ lastHandler' = "handleSaveCategory"
  /\ CategoriesFrame

(* confirmed: the answer to confirm(); ok: the awaited delete meets no error;
   fetchData loads the list again at the end *)
handleDeleteCategory(category, confirmed, ok) ==
  LET subCategories == getSubCategories(category.id)
  IN IF subCategories # {}
     THEN /\ toast' = "Cannot delete category with sub-categories"
          /\ UNCHANGED <<categoryRows, categoryManager>>
     ELSE IF ~confirmed
     THEN UNCHANGED <<toast, categoryRows, categoryManager>>
     ELSE IF ~ok
     THEN /\ toast' = "Failed to delete category"
          /\ UNCHANGED <<categoryRows, categoryManager>>
     ELSE /\ categoryRows' = DeleteCategoryRow(categoryRows, category.id)
          /\ toast' = "Category deleted"
          /\ categoryManager' = [categoryManager EXCEPT
                                   !.categories = categoryRows']

DeleteCategory ==
  /\ ~categoryManager.categoryDialogOpen
  /\ \E category \in ListedCategories, confirmed \in BOOLEAN, ok \in BOOLEAN :
       handleDeleteCategory(category, confirmed, ok)
  /\ lastHandler' = "handleDeleteCategory"
  /\ CategoriesFrame

(* another session, its list up to date, adds a sub-category under a main
   category *)
OtherSessionAddsSubCategory ==
  /\ Cardinality(categoryRows) < MaxCategories
  /\ FreshCategoryIds # {}
  /\ \E m \in {r \in categoryRows : r.parent_id = << >>} :
       categoryRows' = categoryRows \cup
                         {[id |-> CHOOSE i \in FreshCategoryIds : TRUE,
                           parent_id |-> <<m.id>>]}
  /\ UNCHANGED <<toast, lastHandler, categoryManager>>
  /\ CategoriesFrame

----------------------------------------------------------------------------
(* Events of the page *)
Sessions == {<<"u1", "cashier">>, <<"u1", "manager">>, <<"u1", "null">>,
             <<"null", "null">>}
CashInputs == {100, 400}
Deltas == {1, -1}

(* the page is followed until the last sale the model stores has run *)
WithinHorizon == Len(sales) < MaxSales \/ processing

(* a cart handler runs from the page; the number of cart events that fall
   inside one running checkout is bounded *)
CartEvent ==
  /\ Interactive
  /\ WithinHorizon
  /\ processing => opsCommitting < MaxOpsCommitting
  /\ opsCommitting' = IF processing THEN opsCommitting + 1 ELSE opsCommitting
  /\ UNCHANGED <<catalog, paymentMethod, showCashDialog, processing, pc, co,
                 store, receipt, session, backoffice, fetchPending>>

(* handleQuickAdd of the refill panel; Date.now() is read at the click, not
   before the previous reading *)
AddRefill ==
  /\ CartEvent
  /\ Len(cart) < MaxCart
  /\ \E price \in RefillPrices, t \in now..MaxNow :
       /\ now' = t
       /\ addRefillToCart(price, t)
  /\ toast' = "Added refill"
  /\ lastHandler' = "addRefillToCart"
  /\ UNCHANGED cashReceived

AddItem ==
  /\ CartEvent
  /\ \E product \in products :
       /\ (\E i \in 1..Len(cart) : cart[i].product.id = product.id)
            \/ Len(cart) < MaxCart
       /\ addToCart(product)
  /\ lastHandler' = "addToCart"
  /\ UNCHANGED <<now, cashReceived>>

WithinRefillBound(item, delta) ==
  isRefill(item) /\ delta = 1 => item.quantity < MaxRefillQty

UpdateQty ==
  /\ CartEvent
  /\ \E i \in 1..Len(cart), delta \in Deltas :
       /\ WithinRefillBound(cart[i], delta)
       /\ updateQuantity(cart[i].product.id, delta)
  /\ lastHandler' = "updateQuantity"
  /\ UNCHANGED <<now, cashReceived>>

RemoveItem ==
  /\ CartEvent
  /\ \E i \in 1..Len(cart) : removeFromCart(cart[i].product.id)
  /\ lastHandler' = "removeFromCart"
  /\ UNCHANGED <<now, cashReceived>>

ApplyDiscount ==
  /\ CartEvent
  /\ \E i \in 1..Len(cart), discount \in discounts :
       applyDiscount(cart[i].product.id, discount)
  /\ lastHandler' = "applyDiscount"
  /\ UNCHANGED <<now, cashReceived>>

RemoveDiscount ==
  /\ CartEvent
  /\ \E i \in 1..Len(cart) :
       /\ cart[i].discount # Null
       /\ removeDiscount(cart[i].product.id)
  /\ lastHandler' = "removeDiscount"
  /\ UNCHANGED <<now, cashReceived>>

ClearCartEnabled == ~(Len(cart) = 0 \/ processing)

ClearCart ==
  /\ CartEvent
  /\ ClearCartEnabled
  /\ clearCart
  /\ lastHandler' = "clearCart"
  /\ UNCHANGED now

SetPaymentMethod ==
  /\ Interactive
  /\ WithinHorizon
  /\ \E m \in {"cash", "card"} : m # paymentMethod /\ paymentMethod' = m
  /\ lastHandler' = "setPaymentMethod"
  /\ UNCHANGED <<cart, toast, now, catalog, cashReceived, showCashDialog,
                 run, store, receipt, session, backoffice, fetchPending>>

InitiateCheckout ==
  /\ Interactive
  /\ CompleteSaleEnabled
  /\ Len(sales) < MaxSales
  /\ handleInitiateCheckout
  /\ lastHandler' = "handleInitiateCheckout"
  /\ UNCHANGED <<cart, now, catalog, paymentMethod, store, receipt, session, backoffice,
                 fetchPending>>

(* the Complete Sale button, followed until MaxAttempts headers are stored:
   a checkout that failed can be started again on the cart it left *)
InitiateCheckoutRetry ==
  /\ Interactive
  /\ CompleteSaleEnabled
  /\ Len(sales) < MaxAttempts
  /\ handleInitiateCheckout
  /\ lastHandler' = "handleInitiateCheckout"
  /\ UNCHANGED <<cart, now, catalog, paymentMethod, store, receipt, session, backoffice,
                 fetchPending>>

SetCashReceived ==
  /\ showCashDialog
  /\ \E a \in CashInputs : a # cashReceivedAmount /\ cashReceived' = <<a>>
  /\ lastHandler' = "setCashReceived"
  /\ UNCHANGED <<cart, toast, now, catalog, paymentMethod, showCashDialog,
                 run, store, receipt, session, backoffice, fetchPending>>

CancelCashDialog ==
  /\ showCashDialog
  /\ showCashDialog' = FALSE
  /\ lastHandler' = "setShowCashDialog"
  /\ UNCHANGED <<cart, toast, now, catalog, paymentMethod, cashReceived,
                 run, store, receipt, session, backoffice, fetchPending>>

ConfirmPayment ==
  /\ showCashDialog
  /\ ConfirmPaymentEnabled
  /\ handleCashCheckout
  /\ lastHandler' = "handleCashCheckout"
  /\ UNCHANGED <<cart, now, catalog, paymentMethod, cashReceived, store,
                 receipt, session, backoffice, fetchPending>>

(* handleCashCheckout is run whatever the state of the Confirm button *)
ConfirmPaymentCall ==
  /\ showCashDialog
  /\ handleCashCheckout
  /\ lastHandler' = "handleCashCheckout"
  /\ UNCHANGED <<cart, now, catalog, paymentMethod, cashReceived, store,
                 receipt, session, backoffice, fetchPending>>

(* the stored stock of a product is set by the product form of the
   Inventory page, in another session *)
InventoryEdit ==
  /\ WithinHorizon
  /\ \E i \in ProductIds, q \in 0..MaxStock :
       /\ q # stock[i]
       /\ stock' = [stock EXCEPT ![i] = q]
  /\ UNCHANGED <<cart, toast, lastHandler, now, catalog, paymentMethod,
                 cashReceived, showCashDialog, run, sales, sale_items, writes,
                 receipt, session, backoffice, fetchPending>>

(* the first refill of an empty cart, and quantity changes with no bound on
   the quantity *)
AddSingleRefill ==
  /\ cart = << >>
  /\ AddRefill

UpdateQtyUnbounded ==
  /\ CartEvent
  /\ \E i \in 1..Len(cart), delta \in Deltas :
       updateQuantity(cart[i].product.id, delta)
  /\ lastHandler' = "updateQuantity"
  /\ UNCHANGED <<now, cashReceived>>

----------------------------------------------------------------------------
(* Roles and capabilities *)
Roles == {"super_admin", "manager", "cashier"}

Capabilities == {"canManageUsers", "canViewBuyingPrice", "canViewProfit",
                 "canManageProducts", "canViewReports",
                 "canOverrideTransactions", "canAccessSettings",
                 "canViewActivityLogs"}

(* the manager row with canManageUsers granted *)
ROLE_PERMISSIONS_managerUsers ==
  [super_admin |-> [c \in Capabilities |-> TRUE],
   manager |-> [c \in Capabilities |->
                  c \in {"canManageUsers", "canViewBuyingPrice",
                         "canViewProfit", "canManageProducts",
                         "canViewReports"}],
   cashier |-> [c \in Capabilities |-> FALSE]]

ROLE_PERMISSIONS ==
  [super_admin |-> [canManageUsers |-> TRUE,
                    canViewBuyingPrice |-> TRUE,
                    canViewProfit |-> TRUE,
                    canManageProducts |-> TRUE,
                    canViewReports |-> TRUE,
                    canOverrideTransactions |-> TRUE,
                    canAccessSettings |-> TRUE,
                    canViewActivityLogs |-> TRUE],
   manager |-> [canManageUsers |-> FALSE,
                canViewBuyingPrice |-> TRUE,
                canViewProfit |-> TRUE,
                canManageProducts |-> TRUE,
                canViewReports |-> TRUE,
                canOverrideTransactions |-> FALSE,
                canAccessSettings |-> FALSE,
                canViewActivityLogs |-> FALSE],
   cashier |-> [canManageUsers |-> FALSE,
                canViewBuyingPrice |-> FALSE,
                canViewProfit |-> FALSE,
                canManageProducts |-> FALSE,
                canViewReports |-> FALSE,
                canOverrideTransactions |-> FALSE,
                canAccessSettings |-> FALSE,
                canViewActivityLogs |-> FALSE]]

getRolePermissions(r) == ROLE_PERMISSIONS[r]

(* role ? getRolePermissions(role) : null ; null is the empty sequence *)
permissions == IF role # "null" THEN <<getRolePermissions(role)>> ELSE << >>

(* permissions?.[capability], as a condition *)
Has(perm, capability) == perm # << >> /\ perm[1][capability]

NoLookup == [capability |-> "none", granted |-> FALSE]

(* The sidebar *)
mainMenuItems == <<"/dashboard", "/pos", "/sales">>

managementItems ==
  <<[url |-> "/inventory", requiresPermission |-> "canManageProducts"],
    [url |-> "/discounts", requiresPermission |-> "canManageProducts"],
    [url |-> "/reports", requiresPermission |-> "canViewReports"],
    [url |-> "/users", requiresPermission |-> "canManageUsers"],
    [url |-> "/settings", requiresPermission |-> "canAccessSettings"]>>

filteredManagementItems ==
  Filter(managementItems,
         {item \in Range(managementItems) :
            Has(permissions, item.requiresPermission)})

Routes == Range(mainMenuItems) \cup {item.url : item \in Range(managementItems)}

(* the effect each page runs when it is mounted: does it navigate to the
   dashboard? *)
Redirects(url) ==
  CASE url = "/inventory" -> ~Has(permissions, "canManageProducts")
    [] url = "/reports" -> ~Has(permissions, "canViewReports")
    [] url = "/users" -> ~Has(permissions, "canManageUsers")
    [] url = "/settings" ->
         role # "null" /\ ~Has(permissions, "canAccessSettings")
    [] OTHER -> FALSE

(* the route is entered and the page's effect has run *)
Open(url) ==
  /\ location' = IF Redirects(url) THEN "/dashboard" ELSE url
  /\ UNCHANGED <<cart, toast, now, catalog, paymentMethod, cashReceived,
                 showCashDialog, run, store, receipt, session, fetchPending,
                 lookup, discountRows, discountForm, categoryRows,
                 categoryManager, peer>>

(* a link of the sidebar is followed *)
FollowLink ==
  /\ user # "null"
  /\ \E url \in Range(mainMenuItems)
                  \cup {item.url : item \in Range(filteredManagementItems)} :
       url # location /\ Open(url)
  /\ lastHandler' = "NavLink"

(* a route is entered in the address bar *)
EnterUrl ==
  /\ user # "null"
  /\ \E url \in Routes : url # location /\ Open(url)
  /\ lastHandler' = "navigate"

(* a component reads one capability of the signed-in user *)
Lookup ==
  /\ user # "null"
  /\ \E capability \in Capabilities :
       lookup' = [capability |-> capability,
                  granted |-> Has(permissions, capability)]
  /\ lastHandler' = "getRolePermissions"
  /\ UNCHANGED <<cart, toast, now, catalog, paymentMethod, cashReceived,
                 showCashDialog, run, store, receipt, session, fetchPending,
                 location, discountRows, discountForm, categoryRows,
                 categoryManager, peer>>

----------------------------------------------------------------------------
(* Specifications *)
AccessSessions == {<<"u1", "super_admin">>, <<"u1", "manager">>,
                   <<"u1", "cashier">>, <<"u1", "null">>}

(* the point-of-sale page as it is mounted, over the stored tables *)
Mounted ==
  /\ cart = << >>
  /\ toast = NoToast
  /\ lastHandler = "none"
  /\ now = 0
  /\ products = {}
  /\ discounts = {}
  /\ paymentMethod = "cash"
  /\ cashReceived = << >>
  /\ showCashDialog = FALSE
  /\ processing = FALSE
  /\ pc = "none"
  /\ co = CoNone
  /\ opsCommitting = 0
  /\ sales = << >>
  /\ sale_items = << >>
  /\ stock = InitialStock
  /\ writes = << >>
  /\ showReceipt = FALSE
  /\ receiptData = << >>
  /\ fetchPending = TRUE
  /\ lookup = NoLookup
  /\ discountRows = Discounts
  /\ discountForm = DiscountsMounted
  /\ categoryRows = {}
  /\ categoryManager = CategoryManagerMounted

Init ==
  /\ Mounted
  /\ peer = PeerMounted
  /\ location = "/pos"
  /\ \E s \in Sessions : user = s[1] /\ role = s[2]

ManagerSessions == {<<"u1", "super_admin">>, <<"u1", "manager">>}

(* two staff sessions at their points of sale *)
InitTwoSessions ==
  /\ Mounted
  /\ peer \in {[PeerMounted EXCEPT !.role = r] : r \in {"cashier", "manager"}}
  /\ location = "/pos"
  /\ \E s \in {<<"u1", "cashier">>, <<"u1", "manager">>} :
       user = s[1] /\ role = s[2]

InitDiscounts ==
  /\ Mounted
  /\ peer = PeerMounted
  /\ location = "/discounts"
  /\ \E s \in ManagerSessions \cup {<<"u1", "cashier">>} :
       user = s[1] /\ role = s[2]

InitCategories ==
  /\ Mounted
  /\ peer = PeerMounted
  /\ location = "/inventory"
  /\ \E s \in ManagerSessions : user = s[1] /\ role = s[2]

InitAccess ==
  /\ Mounted
  /\ peer = PeerMounted
  /\ location = "/dashboard"
  /\ \E s \in AccessSessions : user = s[1] /\ role = s[2]

Next ==
  \/ AddRefill
  \/ AddItem
  \/ UpdateQty
  \/ RemoveItem
  \/ ApplyDiscount
  \/ RemoveDiscount
  \/ ClearCart
  \/ SetPaymentMethod
  \/ InitiateCheckout
  \/ SetCashReceived
  \/ CancelCashDialog
  \/ ConfirmPayment
  \/ SaleInsertOk
  \/ ItemsInsertOk
  \/ StockUpdateOk
  \/ CheckoutError
  \/ closeReceipt
  \/ DismissReceipt
  \/ FetchProductsOk
  \/ FetchProductsError
  \/ FetchDiscountsOk

Spec == Init /\ [][Next]_vars

(* The cart alone: sequences of cart operations over the loaded product list *)
NextCart ==
  \/ AddRefill
  \/ AddItem
  \/ UpdateQty
  \/ RemoveItem
  \/ ApplyDiscount
  \/ RemoveDiscount
  \/ ClearCart
  \/ FetchProductsOk
  \/ FetchProductsError
  \/ FetchDiscountsOk

SpecCart == Init /\ [][NextCart]_vars

(* One refill line whose quantity is stepped without a bound of the model *)
NextRefill ==
  \/ AddSingleRefill
  \/ UpdateQtyUnbounded

SpecRefill == Init /\ [][NextRefill]_vars

(* The page with handleCashCheckout run on every state of the cash dialog *)
NextTender ==
  \/ AddRefill
  \/ AddItem
  \/ UpdateQty
  \/ RemoveItem
  \/ ApplyDiscount
  \/ RemoveDiscount
  \/ ClearCart
  \/ SetPaymentMethod
  \/ InitiateCheckout
  \/ SetCashReceived
  \/ CancelCashDialog
  \/ ConfirmPaymentCall
  \/ SaleInsertOk
  \/ ItemsInsertOk
  \/ StockUpdateOk
  \/ CheckoutError
  \/ closeReceipt
  \/ DismissReceipt
  \/ FetchProductsOk
  \/ FetchProductsError
  \/ FetchDiscountsOk

SpecTender == Init /\ [][NextTender]_vars

(* Sales of catalog products while the Inventory page edits the stock *)
NextStock ==
  \/ AddItem
  \/ InitiateCheckout
  \/ SetCashReceived
  \/ ConfirmPayment
  \/ SaleInsertOk
  \/ ItemsInsertOk
  \/ StockUpdateOk
  \/ closeReceipt
  \/ FetchProductsOk
  \/ InventoryEdit

SpecStock == Init /\ [][NextStock]_vars

(* The routes, the sidebar and the capability lookups of one session *)
NextAccess ==
  \/ FollowLink
  \/ EnterUrl
  \/ Lookup

SpecAccess == InitAccess /\ [][NextAccess]_vars

(* The Discounts page over the discounts table *)
NextDiscounts ==
  \/ DiscountsFetchOk
  \/ openCreateDialog
  \/ openEditDialog
  \/ EditDiscountForm
  \/ CloseDiscountDialog
  \/ SaveDiscount

SpecDiscounts == InitDiscounts /\ [][NextDiscounts]_vars

(* The category manager over the categories table, with another session
   adding sub-categories *)
NextCategories ==
  \/ CategoriesFetchOk
  \/ openAddCategory
  \/ openEditCategory
  \/ EditCategoryForm
  \/ CloseCategoryDialog
  \/ SaveCategory
  \/ DeleteCategory
  \/ OtherSessionAddsSubCategory

SpecCategories == InitCategories /\ [][NextCategories]_vars

(* The category manager of one session alone *)
NextCategoryManager ==
  \/ CategoriesFetchOk
  \/ openAddCategory
  \/ openEditCategory
  \/ EditCategoryForm
  \/ CloseCategoryDialog
  \/ SaveCategory
  \/ DeleteCategory

SpecCategoryManager == InitCategories /\ [][NextCategoryManager]_vars

(* Checkouts of one session that may fail and be started again on the cart
   that is left *)
NextRetry ==
  \/ AddItem
  \/ SetPaymentMethod
  \/ InitiateCheckoutRetry
  \/ SetCashReceived
  \/ ConfirmPayment
  \/ SaleInsertOk
  \/ ItemsInsertOk
  \/ StockUpdateOk
  \/ CheckoutError
  \/ closeReceipt
  \/ FetchProductsOk

SpecRetry == Init /\ [][NextRetry]_vars

(* every awaited write of processCheckout resolves, with a result or with an
   error *)
CheckoutResponse ==
  SaleInsertOk \/ ItemsInsertOk \/ StockUpdateOk \/ CheckoutError

SpecRetryFair == SpecRetry /\ WF_vars(CheckoutResponse)

(* Two staff sessions selling from the same stock *)
NextTwoSessions ==
  \/ AddItem
  \/ SetPaymentMethod
  \/ InitiateCheckoutRetry
  \/ SetCashReceived
  \/ ConfirmPayment
  \/ SaleInsertOk
  \/ ItemsInsertOk
  \/ StockUpdateOk
  \/ closeReceipt
  \/ FetchProductsOk
  \/ PeerFetchProductsOk
  \/ PeerAddItem
  \/ PeerCheckout
  \/ PeerSaleInsertOk
  \/ PeerItemsInsertOk
  \/ PeerStockUpdateOk

SpecTwoSessions == InitTwoSessions /\ [][NextTwoSessions]_vars

TypeOK ==
  /\ Len(cart) <= MaxCart
  /\ now \in 0..MaxNow
  /\ pc \in {"none", "sale", "items", "stock"}
  /\ processing \in BOOLEAN
  /\ Len(sales) <= MaxSales

----------------------------------------------------------------------------
(* Properties *)
Lines == 1..Len(cart)

RECURSIVE GrossOf(_)
GrossOf(c) ==
  IF c = << >> THEN 0
  ELSE Head(c).product.selling_price * Head(c).quantity + GrossOf(Tail(c))

RECURSIVE DiscountOf(_)
DiscountOf(c) ==
  IF c = << >> THEN 0
  ELSE calculateItemDiscount(Head(c)) + DiscountOf(Tail(c))

(* C1: for every cart reachable by cart operations the net total of
   calculateTotals is the cart gross (sum of price * quantity) minus the cart
   discount (sum of the per-line discount amounts), exactly *)
C1_NetIsGrossMinusDiscount ==
  calculateTotals(cart).subtotal = GrossOf(cart) - DiscountOf(cart)

(* a cart of two lines, one of them discounted by more than its gross *)
C1_Witness ==
  /\ Len(cart) = 2
  /\ \E i \in Lines : calculateItemDiscount(cart[i]) > ItemGross(cart[i])
  /\ \E i \in Lines : cart[i].discount = Null

(* C2: the line net subtotal of calculateItemSubtotal is never negative,
   whatever the price, the quantity and the discount of the line *)
C2_LineNetNonNegative ==
  \A i \in Lines : calculateItemSubtotal(cart[i]) >= 0

(* a line with a fixed discount larger than its unit price, quantity 2 *)
C2_Witness ==
  \E i \in Lines :
    /\ cart[i].discount.type = "fixed"
    /\ cart[i].discount.value > cart[i].product.selling_price
    /\ cart[i].quantity = 2

(* C3: after any sequence of cart operations every line has a quantity q
   with 1 <= q <= stock_quantity of the line's product snapshot *)
C3_QuantityWithinStock ==
  \A i \in Lines :
    /\ 1 <= cart[i].quantity
    /\ cart[i].quantity <= cart[i].product.stock_quantity

(* a quantity change was refused on a line that stands at its stock of 2 *)
C3_Witness ==
  /\ lastHandler = "updateQuantity"
  /\ toast = NotEnoughStock
  /\ \E i \in Lines : /\ cart[i].quantity = cart[i].product.stock_quantity
                      /\ cart[i].quantity = 2

(* C4: addToCart(product) with a line of that product id present adds
   exactly 1 to its quantity unless that would exceed product.stock_quantity,
   and then leaves the cart as it is and surfaces 'not enough stock'; with
   no such line it appends a line of quantity 1 without discount at the end.
   The lines already present keep their order *)
C4_AddItem ==
  [][\A product \in products :
       lastHandler' = "addToCart" /\ addToCart(product) =>
         LET present == {i \in Lines : cart[i].product.id = product.id}
         IN IF present = {}
            THEN /\ Len(cart') = Len(cart) + 1
                 /\ \A i \in Lines : cart'[i] = cart[i]
                 /\ cart'[Len(cart')] =
                      [product |-> product, quantity |-> 1, discount |-> Null]
            ELSE IF \E i \in present :
                      cart[i].quantity + 1 > product.stock_quantity
            THEN cart' = cart /\ toast' = NotEnoughStock
            ELSE /\ Len(cart') = Len(cart)
                 /\ \A i \in Lines :
                      /\ cart'[i].product = cart[i].product
                      /\ cart'[i].discount = cart[i].discount
                      /\ cart'[i].quantity =
                           cart[i].quantity + (IF i \in present THEN 1 ELSE 0)
    ]_vars

(* addToCart was refused on a cart of two lines *)
C4_Witness ==
  /\ lastHandler = "addToCart"
  /\ toast = NotEnoughStock
  /\ Len(cart) = 2

(* C5: a quantity change whose result would exceed the stock_quantity of the
   line's product is refused: the error is surfaced and the whole cart is as
   before the call *)
C5_OverStockRejected ==
  [][\A i \in Lines, delta \in Deltas :
       /\ lastHandler' = "updateQuantity"
       /\ updateQuantity(cart[i].product.id, delta)
       /\ cart[i].quantity + delta > cart[i].product.stock_quantity
       => cart' = cart /\ toast' = NotEnoughStock
    ]_vars

(* a quantity change was refused on a discounted line next to another line *)
C5_Witness ==
  /\ lastHandler = "updateQuantity"
  /\ toast = NotEnoughStock
  /\ Len(cart) = 2
  /\ \E i \in Lines : /\ cart[i].quantity = cart[i].product.stock_quantity
                      /\ cart[i].discount # Null

(* C6: a quantity change whose result is <= 0 removes the line, as
   removeFromCart of that product id does *)
C6_NonPositiveRemovesLine ==
  [][\A i \in Lines, delta \in Deltas :
       /\ lastHandler' = "updateQuantity"
       /\ updateQuantity(cart[i].product.id, delta)
       /\ cart[i].quantity + delta <= 0
       => cart' = Filter(cart, {m \in Range(cart) :
                                  m.product.id # cart[i].product.id})
    ]_vars

(* C7: a refill line is never held by the stock ceiling: every increment of
   its quantity is accepted and no 'not enough stock' is surfaced for it *)
C7_RefillIncrementAccepted ==
  [][\A i \in Lines :
       /\ isRefill(cart[i])
       /\ lastHandler' = "updateQuantity"
       /\ updateQuantity(cart[i].product.id, 1)
       => /\ cart'[i].quantity = cart[i].quantity + 1
          /\ toast' # NotEnoughStock
    ]_vars

Idle == ~showCashDialog /\ ~processing
NoIdentity == user = "null" \/ role = "null"

(* C8: checkout is not started with an empty cart or without a user or a
   role: the page stays Idle (no cash dialog, no Committing), nothing is
   written to the store, and the refused initiation leaves the cart as it is *)
C8_InitiationRejected ==
  [][/\ Idle /\ (Len(cart) = 0 \/ NoIdentity) => Idle' /\ UNCHANGED store
     /\ lastHandler' = "handleInitiateCheckout" /\ (Len(cart) = 0 \/ NoIdentity)
          => /\ toast' \in {CartIsEmpty, MustBeLoggedIn}
             /\ cart' = cart
             /\ Idle'
             /\ UNCHANGED store
    ]_vars

(* a signed-in user without a role, with goods in the cart, was refused *)
C8_Witness ==
  /\ lastHandler = "handleInitiateCheckout"
  /\ toast = MustBeLoggedIn
  /\ user # "null"
  /\ Len(cart) > 0
  /\ Idle

(* C9: an initiation with goods in the cart and a staff identity leaves Idle;
   with cash it goes to AwaitingTender (the cash dialog) and Committing is
   entered with cash only from AwaitingTender; with card it goes straight to
   Committing and the cash dialog is never open with card *)
C9_CashViaTenderCardDirect ==
  [][/\ lastHandler' = "handleInitiateCheckout" /\ Len(cart) > 0 /\ ~NoIdentity
          => ~Idle'
     /\ Idle /\ ~Idle'
          => IF paymentMethod = "cash"
             THEN showCashDialog' /\ ~processing'
             ELSE processing' /\ ~showCashDialog'
     /\ ~processing /\ processing' /\ co'.paymentMethod = "cash"
          => showCashDialog /\ ~showCashDialog'
     /\ showCashDialog' => paymentMethod' = "cash"
    ]_vars

(* a card sale is Committing, started with no tender *)
C9_Witness ==
  /\ processing
  /\ pc = "sale"
  /\ co.paymentMethod = "card"
  /\ co.cashAmount = << >>
  /\ ~showCashDialog

(* C10: from AwaitingTender, Committing is entered exactly when payment is
   confirmed with tendered >= cart net total; the change of a committed cash
   sale is tendered - cartNet >= 0, and it is the change on the receipt *)
C10_TenderCoversNet ==
  [][/\ showCashDialog /\ processing'
          => /\ lastHandler' = "handleCashCheckout"
             /\ cashReceivedAmount >= subtotal
             /\ co'.cashAmount = <<cashReceivedAmount>>
             /\ co'.change = <<cashReceivedAmount - subtotal>>
             /\ co'.subtotal = subtotal
     /\ showCashDialog /\ lastHandler' = "handleCashCheckout"
          => (processing' <=> cashReceivedAmount >= subtotal)
     /\ processing' /\ co'.paymentMethod = "cash"
          => /\ Len(co'.change) = 1
             /\ co'.change[1] = co'.cashAmount[1] - co'.subtotal
             /\ co'.change[1] >= 0
     /\ receiptData' # << >> /\ receiptData'[1].paymentMethod = "cash"
          => /\ Len(receiptData'[1].changeAmount) = 1
             /\ receiptData'[1].changeAmount[1] =
                  receiptData'[1].cashReceived[1] - receiptData'[1].total
             /\ receiptData'[1].changeAmount[1] >= 0
    ]_vars

(* two units at 150 paid with 400 in cash: total 300, change 100 on the
   receipt *)
C10_Witness ==
  /\ receiptData # << >>
  /\ receiptData[1].paymentMethod = "cash"
  /\ receiptData[1].total = 300
  /\ receiptData[1].cashReceived = <<400>>
  /\ receiptData[1].changeAmount = <<100>>

(* C11: nothing that happens before Committing is entered writes to the
   store.  In AwaitingTender (the cash dialog), handleCashCheckout with
   tendered < cart net total keeps the dialog open, surfaces 'insufficient'
   and leaves the amount field as it is for a new entry; cancelling leads to
   Idle; in both cases the store and the cart lines are as before *)
C11_NoEffectBeforeCommitting ==
  [][/\ ~processing => UNCHANGED store
     /\ showCashDialog => cart' = cart
     /\ /\ showCashDialog
        /\ lastHandler' = "handleCashCheckout"
        /\ cashReceivedAmount < subtotal
        => /\ showCashDialog' /\ ~processing'
           /\ toast' = "Insufficient cash received"
           /\ cashReceived' = cashReceived
           /\ cart' = cart
           /\ UNCHANGED store
     /\ showCashDialog /\ lastHandler' = "setShowCashDialog"
        => /\ Idle'
           /\ cart' = cart
           /\ UNCHANGED store
    ]_vars

(* 100 was tendered for a larger net total and the confirmation refused *)
C11_Witness ==
  /\ showCashDialog
  /\ lastHandler = "handleCashCheckout"
  /\ toast = "Insufficient cash received"
  /\ cashReceivedAmount = 100
  /\ subtotal > 100

WritesOf(s) == Filter(writes, {w \in Range(writes) : w.sale = s})
ItemsOf(s) == Filter(sale_items, {r \in Range(sale_items) : r.sale_id = s})

RECURSIVE StockWritesFrom(_, _, _)
StockWritesFrom(rows, s, k) ==
  IF k > Len(rows) THEN << >>
  ELSE (IF rows[k].product_id = << >> THEN << >>
        ELSE <<Write("products", s, k, rows[k].product_id)>>)
       \o StockWritesFrom(rows, s, k + 1)

(* the writes of sale s in the order of the claim: header, items, one stock
   write per stored item row that names a product *)
ExpectedWrites(s) ==
  <<Write("sales", s, 0, << >>), Write("sale_items", s, 0, << >>)>>
  \o StockWritesFrom(ItemsOf(s), s, 1)

IsPrefix(a, b) == Len(a) <= Len(b) /\ \A i \in 1..Len(a) : a[i] = b[i]

CheckoutFailed ==
  processing /\ lastHandler' = "processCheckout"
             /\ toast' = "Failed to process sale"

(* C12: the writes of a checkout are issued in the order header, items, one
   stock write per non-refill line in cart order; a failed write ends the
   sequence in Failed, no later write of it is issued, and what was written
   before stays in the store *)
C12_WriteOrderNoRollback ==
  /\ [](/\ \A i \in 1..Len(writes) : writes[i].sale \in 1..Len(sales)
        /\ \A i, j \in 1..Len(writes) :
             i < j => writes[i].sale <= writes[j].sale
        /\ \A s \in 1..Len(sales) : IsPrefix(WritesOf(s), ExpectedWrites(s)))
  /\ [][/\ writes' # writes => processing
        /\ CheckoutFailed => /\ ~processing'
                             /\ UNCHANGED <<sales, sale_items, stock, writes>>
        /\ \A i \in 1..Len(sales) : Len(sales') >= i /\ sales'[i] = sales[i]
        /\ \A i \in 1..Len(sale_items) :
             Len(sale_items') >= i /\ sale_items'[i] = sale_items[i]
       ]_vars

(* the checkout of two product lines failed at the second stock write: the
   header, the items and the first stock write are in the store *)
C12_Witness ==
  /\ ~processing
  /\ lastHandler = "processCheckout"
  /\ toast = "Failed to process sale"
  /\ Len(writes) = 3
  /\ writes[3].table = "products"
  /\ Len(ExpectedWrites(1)) = 4
  /\ stock # InitialStock

Completes == receiptData' # receiptData /\ receiptData' # << >>

(* C13: when a checkout completes, the stored stock of every non-refill line
   is the stored stock at the start of the checkout minus the line quantity,
   also when the Inventory page changed the stored stock after the product
   was put in the cart *)
C13_StockReducedByQuantity ==
  [][Completes =>
       \A k \in 1..Len(co.cart) :
         ~isRefill(co.cart[k]) =>
           stock'[co.cart[k].product.id] =
             co.stockBefore[co.cart[k].product.id] - co.cart[k].quantity
    ]_vars

ProductWrites(s, k, id) ==
  {i \in 1..Len(writes) : writes[i] = Write("products", s, k, id)}

LineStored(item, row, s, k) ==
  IF isRefill(item)
  THEN /\ row.product_id = << >>
       /\ \A i \in 1..Len(writes) :
            writes[i].table = "products" /\ writes[i].sale = s
              => writes[i].line # k /\ writes[i].id # <<item.product.id>>
  ELSE /\ row.product_id = <<item.product.id>>
       /\ Cardinality(ProductWrites(s, k, <<item.product.id>>)) = 1
       /\ Cardinality({i \in 1..Len(writes) :
                         /\ writes[i].table = "products"
                         /\ writes[i].sale = s
                         /\ writes[i].id = <<item.product.id>>}) = 1

(* C14: the SaleItem stored for a line made by addRefillToCart has
   product_id null and no stock write is issued for it; the SaleItem of every
   other line carries the product id and, when the checkout has completed,
   exactly one stock write was issued for it *)
C14_RefillLinesSkipStock ==
  /\ \A i \in 1..Len(writes) :
       writes[i].table = "products" => writes[i].id[1].kind = "product"
  /\ pc = "stock" =>
       /\ Len(ItemsOf(co.saleId)) = Len(co.cart)
       /\ \A k \in 1..Len(co.cart) :
            ItemsOf(co.saleId)[k].product_id =
              IF isRefill(co.cart[k]) THEN << >>
              ELSE <<co.cart[k].product.id>>
  /\ receiptData # << >> =>
       LET s == receiptData[1].saleId
           items == receiptData[1].items
       IN /\ Len(ItemsOf(s)) = Len(items)
          /\ \A k \in 1..Len(items) :
               LineStored(items[k], ItemsOf(s)[k], s, k)

(* a completed sale of a refill line followed by a product line *)
C14_Witness ==
  /\ receiptData # << >>
  /\ Len(receiptData[1].items) = 2
  /\ isRefill(receiptData[1].items[1])
  /\ ~isRefill(receiptData[1].items[2])
  /\ Len(writes) = 3

(* the header, the items and every stock write of sale s are in the store *)
AllWritten(s) ==
  /\ ItemsOf(s) # << >>
  /\ WritesOf(s) = ExpectedWrites(s)

(* C15: the receipt is built and the cart cleared exactly when the header,
   the items and every stock write succeeded: then the page is Complete, the
   receipt holds the sale id, the lines, gross, discount and net with
   total = subtotal - totalDiscount, tender and change for cash only, and the
   cart is empty; a failed checkout builds no receipt and keeps the cart *)
C15_ReceiptIffAllWritten ==
  [][/\ Completes =>
          /\ processing /\ ~processing' /\ showReceipt'
          /\ \A s \in {co.saleId} :
               /\ ~AllWritten(s) /\ AllWritten(s)'
               /\ Len(ItemsOf(s)') = Len(co.cart)
          /\ cart' = << >>
          /\ LET r == receiptData'[1]
             IN /\ r.saleId = co.saleId /\ r.saleId = Len(sales')
                /\ r.items = co.cart
                /\ r.subtotal = GrossOf(co.cart)
                /\ r.totalDiscount = DiscountOf(co.cart)
                /\ r.total = r.subtotal - r.totalDiscount
                /\ r.paymentMethod = sales'[r.saleId].payment_method
                /\ r.total = sales'[r.saleId].total_amount
                /\ IF r.paymentMethod = "cash"
                   THEN Len(r.cashReceived) = 1 /\ Len(r.changeAmount) = 1
                   ELSE r.cashReceived = << >> /\ r.changeAmount = << >>
     /\ \A s \in 1..Len(sales') :
          ~AllWritten(s) /\ AllWritten(s)'
            => Completes /\ receiptData'[1].saleId = s
     /\ CheckoutFailed => /\ UNCHANGED receipt
                          /\ ~showReceipt'
                          /\ cart' = cart
     /\ lastHandler' = "processCheckout" /\ cart' # cart => Completes
    ]_vars

(* a discounted cash sale is Complete: receipt shown, cart empty *)
C15_Witness ==
  /\ showReceipt
  /\ receiptData # << >>
  /\ receiptData[1].totalDiscount > 0
  /\ receiptData[1].paymentMethod = "cash"
  /\ cart = << >>
  /\ ~processing

(* the capability table as it is specified *)
SpecifiedCapabilities(r) ==
  CASE r = "super_admin" -> Capabilities
    [] r = "manager" -> {"canViewBuyingPrice", "canViewProfit",
                         "canManageProducts", "canViewReports"}
    [] r = "cashier" -> {}

(* C16: getRolePermissions is defined for super_admin, manager and cashier,
   each result has the eight capabilities, and a capability is granted
   exactly where the table says: all eight for super_admin, view-buying-price,
   view-profit, manage-products and view-reports for manager, none for
   cashier; every lookup a signed-in role makes returns that value *)
C16_PermissionTable ==
  /\ DOMAIN ROLE_PERMISSIONS = Roles
  /\ Cardinality(Capabilities) = 8
  /\ \A r \in Roles :
       /\ DOMAIN getRolePermissions(r) = Capabilities
       /\ \A c \in Capabilities :
            getRolePermissions(r)[c] = (c \in SpecifiedCapabilities(r))
  /\ lookup # NoLookup /\ role \in Roles =>
       lookup.granted = (lookup.capability \in SpecifiedCapabilities(role))

(* a manager's lookup of manage-users was answered with no *)
C16_Witness ==
  /\ role = "manager"
  /\ lookup = [capability |-> "canManageUsers", granted |-> FALSE]

GatedPages ==
  {[url |-> "/inventory", capability |-> "canManageProducts"],
   [url |-> "/reports", capability |-> "canViewReports"],
   [url |-> "/users", capability |-> "canManageUsers"],
   [url |-> "/settings", capability |-> "canAccessSettings"]}

(* C17: a signed-in user without a role has no capability: the sidebar shows
   no management entry, and the Inventory, Reports, Users and Settings pages
   send the user to the dashboard, as they do for a role that lacks the
   page's capability: nobody stays on such a page without the capability *)
C17_NoRoleNoCapability ==
  /\ user # "null" /\ role = "null" =>
       /\ filteredManagementItems = << >>
       /\ lookup # NoLookup => ~lookup.granted
  /\ \A page \in GatedPages :
       location = page.url => Has(permissions, page.capability)

(* what the texts of the value field denote; no number: the empty sequence *)
Denotes(text) ==
  CASE text = << >> -> << >>
    [] text = <<"0">> -> <<0>>
    [] text = <<"-", "5">> -> <<0 - 5>>
    [] text = <<"1", "0">> -> <<10>>
    [] text = <<"5", "0">> -> <<50>>
    [] text = <<"1", "5", "0">> -> <<150>>
    [] text = <<"2", "0", "0">> -> <<200>>

InvalidDiscount(f) ==
  LET v == Denotes(f.value)
  IN v = << >> \/ v[1] <= 0 \/ (f.type = "percentage" /\ v[1] > 100)

(* C18: a save of the discount dialog, create or edit, with a value that is
   no number, is <= 0, or is above 100 for a percentage, surfaces an error
   of the validation and leaves the stored discounts as they are; so every
   stored discount has value > 0 and a percentage has value <= 100 *)
C18_InvalidDiscountRejected ==
  /\ [](\A r \in discountRows :
          r.value > 0 /\ (r.type = "percentage" => r.value <= 100))
  /\ [][/\ lastHandler' = "handleSave"
        /\ discountForm.showDialog
        /\ InvalidDiscount(discountForm)
        => /\ discountRows' = discountRows
           /\ toast' \in {"Please enter a discount name",
                          "Please enter a valid value greater than 0",
                          "Percentage cannot exceed 100%"}
           /\ discountForm' = discountForm
       ]_vars

(* the fixed discount of 200 was opened for editing, switched to percentage
   and its save refused *)
C18_Witness ==
  /\ lastHandler = "handleSave"
  /\ toast = "Percentage cannot exceed 100%"
  /\ discountForm.editingDiscount # << >>
  /\ discountForm.type = "percentage"
  /\ discountForm.value = <<"2", "0", "0">>
  /\ discountForm.showDialog

SubCategoriesOf(rows, id) == {r \in rows : r.parent_id = <<id>>}

(* C19: handleDeleteCategory never removes a category that has a
   sub-category in the store, and leaves its sub-categories as they are,
   also when the sub-category was added by another session after the list
   was loaded *)
C19_DeleteWithSubCategoriesRejected ==
  [][lastHandler' = "handleDeleteCategory" =>
       \A c \in categoryRows :
         SubCategoriesOf(categoryRows, c.id) # {} =>
           /\ c \in categoryRows'
           /\ SubCategoriesOf(categoryRows, c.id) \subseteq categoryRows'
           /\ toast' # "Category deleted"
    ]_vars

(* C20: after any sequence of creates, edits and deletes of the category
   manager, a category with a parent_id references a stored category without
   a parent, and no category is its own parent *)
C20_TwoLevelTree ==
  \A r \in categoryRows :
    r.parent_id # << >> =>
      /\ r.parent_id # <<r.id>>
      /\ \E p \in categoryRows : p.id = r.parent_id[1]
      /\ \A p \in categoryRows : p.id = r.parent_id[1] => p.parent_id = << >>

(* C21: the discount amount of a line is 0 without a discount,
   price * quantity * value / 100 for a percentage discount and
   value * quantity for a fixed discount, the fixed amount counted once per
   unit; it is not capped at the gross of the line *)
C21_LineDiscountAmount ==
  \A i \in Lines :
    LET price == cart[i].product.selling_price
        q == cart[i].quantity
        d == cart[i].discount
        amount == calculateItemDiscount(cart[i])
    IN /\ d = Null => amount = 0
       /\ d # Null /\ d.type = "percentage" =>
            amount * 100 = price * q * d.value
       /\ d # Null /\ d.type = "fixed" => amount = d.value * q
       /\ d # Null /\ d.type = "fixed" /\ d.value > price =>
            amount > price * q

(* a cart with a percentage line and a fixed line of quantity 2 whose
   discount amount, 400, is above its gross of 300 *)
C21_Witness ==
  /\ \E i \in Lines :
       /\ cart[i].discount # Null
       /\ cart[i].discount.type = "fixed"
       /\ cart[i].quantity = 2
       /\ calculateItemDiscount(cart[i]) = 400
       /\ ItemGross(cart[i]) = 300
  /\ \E i \in Lines :
       /\ cart[i].discount # Null
       /\ cart[i].discount.type = "percentage"
       /\ calculateItemDiscount(cart[i]) > 0

(* C22: the net total of the cart, gross minus discount, equals the sum of
   the net subtotals of the lines exactly when no line has a discount amount
   above its gross; when a line has, the net total is strictly below the
   sum of the line nets *)
C22_NetVersusLineNets ==
  LET net == calculateTotals(cart).subtotal
      lineNets == Sum([k \in Lines |-> calculateItemSubtotal(cart[k])])
      exceeds == \E i \in Lines :
                   calculateItemDiscount(cart[i]) > ItemGross(cart[i])
  IN /\ (net = lineNets) <=> ~exceeds
     /\ exceeds => net < lineNets

(* two lines, one discounted by more than its gross, the other with a net
   above 0: the net total is below the sum of the line nets *)
C22_Witness ==
  /\ Len(cart) = 2
  /\ \E i \in Lines : calculateItemDiscount(cart[i]) > ItemGross(cart[i])
  /\ \E i \in Lines : calculateItemSubtotal(cart[i]) > 0
  /\ calculateTotals(cart).subtotal <
       Sum([k \in Lines |-> calculateItemSubtotal(cart[k])])

(* C23: applyDiscount(id, d) leaves the line of that id with d, whatever
   discount it held, and removeDiscount / applyDiscount(id, null) leaves it
   without a discount; the product and the quantity of the line, the lines of
   other ids and the order of the lines are as before *)
C23_DiscountReplaced ==
  [][\A i \in Lines, d \in discounts \cup {Null} :
       \/ /\ lastHandler' = "applyDiscount"
          /\ applyDiscount(cart[i].product.id, d)
       \/ /\ lastHandler' = "removeDiscount"
          /\ d = Null
          /\ removeDiscount(cart[i].product.id)
       => /\ Len(cart') = Len(cart)
          /\ \A k \in Lines :
               cart'[k] =
                 IF cart[k].product.id = cart[i].product.id
                 THEN [product |-> cart[k].product,
                       quantity |-> cart[k].quantity,
                       discount |-> d]
                 ELSE cart[k]
    ]_vars

(* applyDiscount has run on a cart of two lines of different products that
   hold different discounts *)
C23_Witness ==
  /\ lastHandler = "applyDiscount"
  /\ toast = "Applied discount"
  /\ Len(cart) = 2
  /\ cart[1].product.id # cart[2].product.id
  /\ cart[1].discount # Null
  /\ cart[2].discount # Null
  /\ cart[1].discount # cart[2].discount
  /\ cart[1].quantity = 2

(* C26: after any sequence of addToCart, addRefillToCart, updateQuantity,
   removeFromCart and applyDiscount no two lines of the cart have the same
   product id; a refill line just added has an id that no line before it
   has *)
C26_ProductIdsDistinct ==
  \A i \in Lines, j \in Lines : i # j => cart[i].product.id # cart[j].product.id

(* C25: every checkout attempt ends: processing returns to false, by the
   completion or by a failure at the header, the items or a stock write that
   is surfaced as 'Failed to process sale'; after a failure no dialog is
   open and the Clear and Complete Sale buttons of the cart that is left are
   enabled again *)
C25_CheckoutEnds ==
  /\ processing ~> ~processing
  /\ [][/\ processing /\ ~processing' =>
             /\ pc' = "none"
             /\ Completes \/ toast' = "Failed to process sale"
        /\ CheckoutFailed =>
             /\ ~processing'
             /\ Interactive'
             /\ Len(cart') > 0 => CompleteSaleEnabled' /\ ClearCartEnabled'
       ]_vars

(* the checkout failed at a stock write, the header and the items stored,
   and the page is ready for the next attempt *)
C25_Witness ==
  /\ ~processing
  /\ pc = "none"
  /\ lastHandler = "processCheckout"
  /\ toast = "Failed to process sale"
  /\ Len(sales) = 1
  /\ ItemsOf(1) # << >>
  /\ Len(WritesOf(1)) < Len(ExpectedWrites(1))
  /\ Interactive
  /\ CompleteSaleEnabled

RECURSIVE QuantitySold(_, _)
QuantitySold(rows, id) ==
  IF rows = << >> THEN 0
  ELSE (IF Head(rows).product_id = <<id>> THEN Head(rows).quantity ELSE 0)
       + QuantitySold(Tail(rows), id)

(* C27: in one session, after any sequence of checkouts, failed and retried
   ones included, the stored stock of every product is its initial stock
   minus the quantity of the product over all stored sale items *)
C27_StockMatchesSaleItems ==
  ~processing =>
    \A id \in ProductIds :
      stock[id] = InitialStock[id] - QuantitySold(sale_items, id)

(* C28: while the cart has not been cleared, at most one sale header is
   stored for it: every header but the last belongs to a checkout that
   completed and cleared the cart *)
C28_OneHeaderPerCart ==
  \A s \in 1..(Len(sales) - 1) : AllWritten(s)

(* C29: every line of the cart that is dropped when a checkout completes was
   stored as an item of that sale with its quantity *)
C29_DiscardedLinesPersisted ==
  [][Completes =>
       \A i \in Lines :
         \E k \in 1..Len(sale_items') :
           /\ sale_items'[k].sale_id = co.saleId
           /\ sale_items'[k].quantity = cart[i].quantity
           /\ sale_items'[k].unit_price = cart[i].product.selling_price
           /\ sale_items'[k].product_id =
                IF isRefill(cart[i]) THEN << >> ELSE <<cart[i].product.id>>
    ]_vars

(* C30: every stored sale header has total_amount >= 0, and once its items
   are stored total_amount is the sum of their subtotal fields *)
C30_HeaderTotalMatchesItems ==
  \A s \in 1..Len(sales) :
    /\ sales[s].total_amount >= 0
    /\ ItemsOf(s) # << >> =>
         sales[s].total_amount =
           Sum([k \in 1..Len(ItemsOf(s)) |-> ItemsOf(s)[k].subtotal])

(* C24: with two staff sessions selling the same product, no step of either
   checkout is blocked by what the other session wrote: whenever a checkout
   waits for its header, its items or a stock write, the write can succeed,
   whatever the stored stock is; each cart line is within the stock its
   session read *)
C24_CheckoutsNotBlocked ==
  /\ pc = "sale" => ENABLED SaleInsertOk
  /\ pc = "items" => ENABLED ItemsInsertOk
  /\ pc = "stock" => ENABLED StockUpdateOk
  /\ peer.pc = "sale" => ENABLED PeerSaleInsertOk
  /\ peer.pc = "items" => ENABLED PeerItemsInsertOk
  /\ peer.pc = "stock" => ENABLED PeerStockUpdateOk
  /\ \A i \in Lines : cart[i].quantity <= cart[i].product.stock_quantity
  /\ \A i \in 1..Len(peer.cart) :
       peer.cart[i].quantity <= peer.cart[i].product.stock_quantity

(* both sessions completed a sale of the same product and the quantity sold
   is above the stock that existed *)
C24_Witness ==
  /\ showReceipt
  /\ toast = "Sale completed successfully!"
  /\ peer.showReceipt
  /\ Len(sales) = 2
  /\ AllWritten(1) /\ AllWritten(2)
  /\ \E id \in ProductIds :
       /\ QuantitySold(ItemsOf(1), id) > 0
       /\ QuantitySold(ItemsOf(2), id) > 0
       /\ QuantitySold(sale_items, id) > InitialStock[id]

====
